---- MODULE Spec2Model ----
(***************************************************************************)
(* The progress engine of the YCtravel LINE bot (src/app.py): the users    *)
(* and levels tables, the webhook handlers handle_follow / handle_message  *)
(* taken one store access at a time, and the string functions they use.    *)
(*                                                                         *)
(* A Python str is a sequence of one-character strings.  A character      *)
(* outside ASCII is written by its code point ("U5230" is the character    *)
(* U+5230); the texts of the level records and the fixed replies, which the *)
(* engine only passes through, are plain strings naming the text.          *)
(***************************************************************************)
EXTENDS Integers, Sequences, FiniteSets, TLC

----------------------------------------------------------------------------
(* Python string operations used by app.py *)

LowerLetters ==
    <<"a","b","c","d","e","f","g","h","i","j","k","l","m",
      "n","o","p","q","r","s","t","u","v","w","x","y","z">>

UpperLetters ==
    <<"A","B","C","D","E","F","G","H","I","J","K","L","M",
      "N","O","P","Q","R","S","T","U","V","W","X","Y","Z">>

Digits == <<"0","1","2","3","4","5","6","7","8","9">>

\* what str.strip() without argument removes at both ends: space, tab,
\* newline and the full-width space U+3000
Whitespace == {" ", "\t", "\n", "U3000"}

\* the characters clean_answer removes one by one (app.py line 256)
Punctuation ==
    <<".", ",", "?", "!", ";", ":", "\"", "'",
      "UFF0C", "U3002", "UFF1F", "UFF01", "UFF1B", "UFF1A", "U300C", "U300D">>

IndexOf(seq, c) ==
    IF \E i \in 1..Len(seq) : seq[i] = c
    THEN CHOOSE i \in 1..Len(seq) : seq[i] = c
    ELSE 0

lower(s) ==
    [i \in 1..Len(s) |->
        IF IndexOf(UpperLetters, s[i]) = 0 THEN s[i]
        ELSE LowerLetters[IndexOf(UpperLetters, s[i])]]

upper(s) ==
    [i \in 1..Len(s) |->
        IF IndexOf(LowerLetters, s[i]) = 0 THEN s[i]
        ELSE UpperLetters[IndexOf(LowerLetters, s[i])]]

strip(s) ==
    LET keep == {i \in 1..Len(s) : s[i] \notin Whitespace}
    IN IF keep = {} THEN <<>>
       ELSE SubSeq(s, CHOOSE i \in keep : \A j \in keep : i <= j,
                      CHOOSE i \in keep : \A j \in keep : i >= j)

\* text.replace(char, '')
replace(s, char) == SelectSeq(s, LAMBDA c : c # char)

RECURSIVE RemoveEach(_, _)
\* for char in chars: text = text.replace(char, '')
RemoveEach(s, chars) ==
    IF chars = <<>> THEN s
    ELSE RemoveEach(replace(s, Head(chars)), Tail(chars))

clean_answer(text) ==
    replace(replace(RemoveEach(strip(lower(text)), Punctuation), "U3000"), " ")

\* s.split('_')[0]
split_first(s) ==
    LET us == {i \in 1..Len(s) : s[i] = "_"}
    IN IF us = {} THEN s
       ELSE SubSeq(s, 1, (CHOOSE i \in us : \A j \in us : i <= j) - 1)

endswith(s, suffix) ==
    /\ Len(s) >= Len(suffix)
    /\ SubSeq(s, Len(s) - Len(suffix) + 1, Len(s)) = suffix

\* int(s) succeeds on a non-empty run of decimal digits; anything else the
\* state tokens of this model can hold raises ValueError
IsNumber(s) == s # <<>> /\ \A i \in 1..Len(s) : IndexOf(Digits, s[i]) # 0

RECURSIVE int(_)
int(s) ==
    IF s = <<>> THEN 0
    ELSE 10 * int(SubSeq(s, 1, Len(s) - 1)) + (IndexOf(Digits, s[Len(s)]) - 1)

RECURSIVE str(_)
str(n) ==
    IF n < 10 THEN <<Digits[n + 1]>>
    ELSE str(n \div 10) \o <<Digits[(n % 10) + 1]>>

RECURSIVE zfill(_, _)
zfill(s, width) == IF Len(s) >= width THEN s ELSE zfill(<<"0">> \o s, width)

\* mutant: the level number is not incremented
NumericSuccessor_NoIncrement(base_level_id) ==
    <<"L">> \o zfill(str(int(Tail(base_level_id))), 2)

\* 'L' + str(current_level_num + 1).zfill(2), from base_level_id[1:]
NumericSuccessor(base_level_id) ==
    <<"L">> \o zfill(str(int(Tail(base_level_id)) + 1), 2)

----------------------------------------------------------------------------
(* State tokens, command tokens and the level data of app.py *)

\* a NULL column of a row
None == "None"

\* Python truthiness of a text or url column: NULL and '' are false
Truthy(v) == v # None /\ v # ""

WELCOME == <<"W","E","L","C","O","M","E">>

COMPLETED == <<"C","O","M","P","L","E","T","E","D">>

ANSWERING == <<"_","A","N","S","W","E","R","I","N","G">>

WAITING == <<"_","W","A","I","T","I","N","G">>

L01 == <<"L","0","1">>

L02 == <<"L","0","2">>

L03 == <<"L","0","3">>

L04 == <<"L","0","4">>

L05 == <<"L","0","5">>

L06 == <<"L","0","6">>

L07 == <<"L","0","7">>

Answering(level_id) == level_id \o ANSWERING

Waiting(level_id) == level_id \o WAITING

RESET == <<"R","E","S","E","T">>

RESET_ZH == <<"U91CD","U7F6E">>

START == <<"S","T","A","R","T">>

START_ZH == <<"U958B","U59CB">>

ARRIVED == <<"U6211","U5230","U4E86">>

ARRIVED_SHORT == <<"U5230">>

LEVEL_DATA ==
    (L01 :> [intro_text |-> "L01.intro_text", question |-> "L01.question",
             question_image |-> None,
             answer |-> <<"M","a","r","u","y","a","m","a">>,
             next_clue |-> "L01.next_clue", next_clue_image |-> None,
             next_level_id |-> L02])
 @@ (L02 :> [intro_text |-> "L02.intro_text", question |-> "L02.question",
             question_image |-> None,
             answer |-> <<"U79AE","U6A02","U5C04","U5FA1","U66F8","U6578">>,
             next_clue |-> "L02.next_clue", next_clue_image |-> None,
             next_level_id |-> L03])
 @@ (L03 :> [intro_text |-> "L03.intro_text", question |-> "L03.question",
             question_image |-> None,
             answer |-> <<"U4FDD","U5B89">>,
             next_clue |-> "L03.next_clue", next_clue_image |-> None,
             next_level_id |-> L04])
 @@ (L04 :> [intro_text |-> "L04.intro_text", question |-> "L04.question",
             question_image |-> "images/04.jpg",
             answer |-> <<"U9802">>,
             next_clue |-> "L04.next_clue", next_clue_image |-> None,
             next_level_id |-> L05])
 @@ (L05 :> [intro_text |-> "L05.intro_text", question |-> "L05.question",
             question_image |-> None,
             answer |-> <<"U9CF3","U68A8">>,
             next_clue |-> "L05.next_clue", next_clue_image |-> None,
             next_level_id |-> L06])
 @@ (L06 :> [intro_text |-> "L06.intro_text", question |-> "L06.question",
             question_image |-> "images/05.jpg",
             answer |-> <<"5","3","8","7","8","3","3","7","5","1","5">>,
             next_clue |-> "L06.next_clue", next_clue_image |-> None,
             next_level_id |-> COMPLETED])

\* the columns get_level_details selects, in its order (app.py line 238)
Row(level_id, data) ==
    <<level_id, data.intro_text, data.question, data.question_image,
      data.answer, data.next_clue, data.next_clue_image>>

\* fetchone() when no row matches
NoRow == <<>>

----------------------------------------------------------------------------
(* Outbound messages *)

TextSendMessage(text) == [type |-> "text", text |-> text]

ImageSendMessage(url) ==
    [type |-> "image", original_content_url |-> url, preview_image_url |-> url]

WELCOME_MESSAGE == <<"WELCOME_MESSAGE">>

MSG_RESET_DONE == <<"progress reset, send START">>

MSG_RESET_FAILED == <<"reset failed, check the database connection">>

MSG_COMPLETED == <<"all challenges completed, send RESET to replay">>

MSG_START_BANNER == <<"journey begins">>

MSG_START_NO_L01 == <<"start failed: no L01 level data">>

MSG_START_FAILED == <<"start failed, check the database connection">>

MSG_SEND_START == <<"send START to begin">>

MSG_NO_LEVEL_DATA == <<"system error: level data not found">>

MSG_ARRIVAL_CONFIRMED == <<"arrival confirmed">>

MSG_SEND_ARRIVAL == <<"go to the next place and send the arrival word">>

MSG_TRAVEL_PROMPT == <<"send the arrival word on arrival for the next puzzle">>

MSG_WRONG_ANSWER == <<"answer incorrect">>

MSG_STATE_ERROR == <<"state error, send RESET to restart">>

\* f"[L01 challenge]\n{question_text}" and f"[{next_level_id} challenge]\n{...}"
ChallengeText(level_id, question_text) ==
    <<"[">> \o level_id \o <<" challenge]", "\n", question_text>>

\* f"[current challenge: {base_level_id}]\n{question_text}"
CurrentChallengeText(level_id, question_text) ==
    <<"[current challenge: ">> \o level_id \o <<"]", "\n", question_text>>

----------------------------------------------------------------------------
(* Bounds of the model *)

\* webhook requests that can be in progress at once
MaxWorkers == 2

\* requests that a run takes while another request is in progress
MaxOverlaps == 2

Users == {"U1", "U2"}

Workers == 1..MaxWorkers

\* the row of a seventh level, left in the levels table by another deployment
L07_ROW == <<L07, None, "L07.question", None, <<"7">>, "L07.next_clue", None>>

\* the texts the players send
Inputs ==
    { RESET, <<" ","r","e","s","e","t"," ">>, RESET_ZH,
      START, START_ZH, <<"h","e","l","l","o">>,
      ARRIVED, ARRIVED_SHORT, L07_ROW[5] }
    \cup { LEVEL_DATA[id].answer : id \in DOMAIN LEVEL_DATA }

\* the sender and the texts of the requests handled concurrently
ConcurrentUsers == {"U1"}

ConcurrentInputs ==
    { RESET, START, <<"h","e","l","l","o">>, ARRIVED_SHORT }
    \cup { LEVEL_DATA[id].answer : id \in DOMAIN LEVEL_DATA }

\* the longest text made of the characters of Alphabet
MaxLen == 3

\* the answer of L04, a removed punctuation mark, and white space: the ASCII
\* space and the tab
Alphabet == {"U9802", ".", " ", "\t"}

\* every text of at most n characters of Alphabet
Strings(n) == UNION {[1..k -> Alphabet] : k \in 0..n}

\* the answers of L01 and L03 written another way
AnswerVariants ==
    { <<" ","m","a","r","u","y","a","m","a"," ">>,
      <<"\t","M","A","R","U"," ","Y","A","M","A","!","\n">>,
      <<"U4FDD","U5B89","U3002">>,
      <<"U3000","U4FDD","U3000","U5B89","UFF01">> }

\* the sender and the texts of the requests that exercise the normalization
NormalizeUsers == {"U1"}

NormalizeInputs == Inputs \cup AnswerVariants \cup Strings(MaxLen)

\* the sender whose record this or an older deployment may have written
LegacyUsers == {"U1"}

\* the texts of the requests of different users handled at once
CrossUserInputs ==
    { RESET, START, <<"h","e","l","l","o">>, ARRIVED_SHORT,
      LEVEL_DATA[L01].answer }

----------------------------------------------------------------------------
(* State *)

VARIABLES
    users,      \* table users: user_id -> current_level, for the rows present
    levels,     \* table levels: level_id -> row, for the rows present
    workers,    \* how many requests the deployment handles at once
    handler,    \* per worker: the request in progress, its locals and result
    journey,    \* history: per user, whether a START was carried out since the
                \* last reset, how many correct answers were accepted since,
                \* and whether a reset was ever carried out
    overlaps    \* history: requests taken while another was in progress

vars == <<users, levels, workers, handler, journey, overlaps>>

NotStarted == [started |-> FALSE, correct |-> 0, was_reset |-> FALSE]

\* a worker with no request
Idle ==
    [pc |-> "idle", event |-> "", user_id |-> "", user_input |-> <<>>,
     current_state |-> <<>>, current_level_data |-> NoRow,
     next_level_id |-> <<>>, next_level_data |-> NoRow,
     reply |-> <<>>, http |-> "", raised |-> FALSE, before |-> <<>>]

\* the stored state of a user as a sequence: <<>> without a row
Stored(user_id) == IF user_id \in DOMAIN users THEN <<users[user_id]>> ELSE <<>>

\* tables the levels table can hold when the application starts
EmptyTable == [id \in {} |-> NoRow]

\* two levels, the first with a transition image in next_clue_image_url
TwoLevelTable ==
    [id \in {L01, L02} |->
        IF id = L01
        THEN [Row(id, LEVEL_DATA[id]) EXCEPT ![7] = "images/clue01.jpg"]
        ELSE Row(id, LEVEL_DATA[id])]

SevenLevelTable ==
    [id \in DOMAIN LEVEL_DATA \cup {L07} |->
        IF id = L07 THEN L07_ROW ELSE Row(id, LEVEL_DATA[id])]

PriorTables == {EmptyTable, TwoLevelTable, SevenLevelTable}

\* setup_db: every level of LEVEL_DATA is inserted or updated, other rows stay
setup_db(prior) ==
    [id \in DOMAIN prior \cup DOMAIN LEVEL_DATA |->
        IF id \in DOMAIN LEVEL_DATA THEN Row(id, LEVEL_DATA[id]) ELSE prior[id]]

\* setup_db swallows its exceptions: on failure the table is left as it was
StartTables == {setup_db(t) : t \in PriorTables} \cup PriorTables

\* state tokens a users table written by this or an older deployment holds
LegacyTokens ==
    {WELCOME, COMPLETED, L01, <<"X">>, <<"L","9","9">> \o ANSWERING}
    \cup {Answering(id) : id \in DOMAIN SevenLevelTable}
    \cup {Waiting(id) : id \in DOMAIN SevenLevelTable}

Init ==
    /\ users = [u \in {} |-> <<>>]
    /\ levels \in StartTables
    /\ workers = 1
    /\ handler = [w \in Workers |-> Idle]
    /\ journey = [u \in Users |-> NotStarted]
    /\ overlaps = 0

\* as many requests at once as there are workers
InitConcurrent ==
    /\ users = [u \in {} |-> <<>>]
    /\ levels = setup_db(EmptyTable)
    /\ workers = MaxWorkers
    /\ handler = [w \in Workers |-> Idle]
    /\ journey = [u \in Users |-> NotStarted]
    /\ overlaps = 0

\* the users table already holds rows
InitLegacy ==
    /\ \E present \in SUBSET LegacyUsers : users \in [present -> LegacyTokens]
    /\ levels \in StartTables
    /\ workers = 1
    /\ handler = [w \in Workers |-> Idle]
    /\ journey = [u \in Users |-> NotStarted]
    /\ overlaps = 0

----------------------------------------------------------------------------
(* Store access *)

get_level_details(level_id) ==
    IF level_id \in DOMAIN levels THEN levels[level_id] ELSE NoRow

\* mutant: the UPDATE has no WHERE clause
update_user_level_AllRows(user_id, next_state) ==
    [u \in DOMAIN users |-> next_state]

\* UPDATE users SET current_level = ... WHERE user_id = ...: no row, no change
update_user_level(user_id, next_state) ==
    IF user_id \in DOMAIN users
    THEN [users EXCEPT ![user_id] = next_state]
    ELSE users

\* mutant: the new record starts at the first level
insert_user_AtFirstLevel(user_id) ==
    [u \in DOMAIN users \cup {user_id} |->
        IF u = user_id THEN Answering(L01) ELSE users[u]]

\* INSERT INTO users ... 'WELCOME'
insert_user(user_id) ==
    [u \in DOMAIN users \cup {user_id} |->
        IF u = user_id THEN WELCOME ELSE users[u]]

----------------------------------------------------------------------------
(* The handlers, one action per store access *)

\* reply_message and a normal return of the handler
Reply(r, messages) == [r EXCEPT !.pc = "done", !.reply = messages, !.http = "OK"]

\* an exception leaves the handler: callback answers abort(500), nothing is sent
Abort(r) == [r EXCEPT !.pc = "done", !.reply = <<>>, !.http = "500"]

user_message_upper(user_input) == upper(strip(user_input))

\* mutant: the localized reset token is forgotten
IsResetCommand_AsciiOnly(user_input) == user_message_upper(user_input) = RESET

IsResetCommand(user_input) ==
    user_message_upper(user_input) = RESET \/ user_message_upper(user_input) = RESET_ZH

\* mutant: "== 'START' or <non-empty literal>", which is always true
IsStartCommand_OrLiteral(user_input) ==
    user_message_upper(user_input) = START \/ START_ZH # <<>>

IsStartCommand(user_input) ==
    user_message_upper(user_input) = START \/ user_message_upper(user_input) = START_ZH

IsArrivalCommand(user_input) ==
    clean_answer(user_input) = ARRIVED \/ clean_answer(user_input) = ARRIVED_SHORT

\* base_level_id[1:]
Rest(s) == IF s = <<>> THEN <<>> ELSE Tail(s)

\* the image message of a reply, when the row has an image url
OptionalImage(url) == IF Truthy(url) THEN <<ImageSendMessage(url)>> ELSE <<>>

Busy == {w \in Workers : handler[w].pc # "idle"}

\* a request is taken by the first free worker
CanTake(w) ==
    /\ handler[w].pc = "idle"
    /\ Cardinality(Busy) < workers
    /\ \A x \in Workers : x < w => handler[x].pc # "idle"
    /\ Busy # {} => overlaps < MaxOverlaps

\* the count of overlapping requests after one more request is taken
Overlapping == IF Busy # {} THEN overlaps + 1 ELSE overlaps

\* callback dispatches a text message to handle_message (lines 297-304)
ReceiveMessage(w, user_id, user_input) ==
    /\ CanTake(w)
    /\ handler' = [handler EXCEPT ![w] =
          [Idle EXCEPT !.pc = IF IsResetCommand(user_input)
                              THEN "reset_update" ELSE "select_user",
                       !.event = "message", !.user_id = user_id,
                       !.user_input = user_input, !.before = Stored(user_id)]]
    /\ overlaps' = Overlapping
    /\ UNCHANGED <<users, levels, workers, journey>>

\* callback dispatches a follow event to handle_follow (lines 283-287)
ReceiveFollow(w, user_id) ==
    /\ CanTake(w)
    /\ handler' = [handler EXCEPT ![w] =
          [Idle EXCEPT !.pc = "select_user", !.event = "follow",
                       !.user_id = user_id, !.before = Stored(user_id)]]
    /\ overlaps' = Overlapping
    /\ UNCHANGED <<users, levels, workers, journey>>

\* handle_message lines 305-320, the update succeeding
ResetUpdate(w) ==
    /\ handler[w].pc = "reset_update"
    /\ users' = update_user_level(handler[w].user_id, WELCOME)
    /\ handler' = [handler EXCEPT ![w] =
          Reply(@, <<TextSendMessage(MSG_RESET_DONE),
                     TextSendMessage(WELCOME_MESSAGE)>>)]
    /\ journey' = [journey EXCEPT ![handler[w].user_id] =
                      [NotStarted EXCEPT !.was_reset = TRUE]]
    /\ UNCHANGED <<levels, workers, overlaps>>

\* mutant: the COMPLETED state is not handled before the dispatch
AfterGetUserLevel_NoCompletedCheck(r) ==
    IF r.event = "follow"
    THEN Reply(r, <<TextSendMessage(WELCOME_MESSAGE)>>)
    ELSE IF r.current_state = WELCOME
    THEN IF IsStartCommand(r.user_input)
         THEN [r EXCEPT !.pc = "start_update"]
         ELSE Reply(r, <<TextSendMessage(MSG_SEND_START)>>)
    ELSE [r EXCEPT !.pc = "current_lookup"]

\* what follows get_user_level, up to the next store access:
\* handle_follow lines 289-292, handle_message lines 326-375
AfterGetUserLevel(r) ==
    IF r.event = "follow"
    THEN Reply(r, <<TextSendMessage(WELCOME_MESSAGE)>>)
    ELSE IF r.current_state = COMPLETED
    THEN Reply(r, <<TextSendMessage(MSG_COMPLETED)>>)
    ELSE IF r.current_state = WELCOME
    THEN IF IsStartCommand(r.user_input)
         THEN [r EXCEPT !.pc = "start_update"]
         ELSE Reply(r, <<TextSendMessage(MSG_SEND_START)>>)
    ELSE [r EXCEPT !.pc = "current_lookup"]

\* get_user_level lines 214-222: the SELECT
SelectUser(w) ==
    /\ handler[w].pc = "select_user"
    /\ handler' = [handler EXCEPT ![w] =
          IF handler[w].user_id \in DOMAIN users
          THEN AfterGetUserLevel(
                  [handler[w] EXCEPT !.current_state = users[handler[w].user_id]])
          ELSE [handler[w] EXCEPT !.pc = "insert_user"]]
    /\ UNCHANGED <<users, levels, workers, journey, overlaps>>

\* get_user_level lines 225-231: the INSERT; user_id is the primary key, so a
\* row inserted meanwhile makes it raise
InsertUser(w) ==
    /\ handler[w].pc = "insert_user"
    /\ IF handler[w].user_id \in DOMAIN users
       THEN /\ users' = users
            /\ handler' = [handler EXCEPT ![w] = Abort(@)]
       ELSE /\ users' = insert_user(handler[w].user_id)
            /\ handler' = [handler EXCEPT ![w] =
                  AfterGetUserLevel([handler[w] EXCEPT !.current_state = WELCOME])]
    /\ UNCHANGED <<levels, workers, journey, overlaps>>

\* handle_message line 339
StartUpdate(w) ==
    /\ handler[w].pc = "start_update"
    /\ users' = update_user_level(handler[w].user_id, Answering(L01))
    /\ handler' = [handler EXCEPT ![w].pc = "start_lookup"]
    /\ journey' = [journey EXCEPT ![handler[w].user_id] =
                      [@ EXCEPT !.started = TRUE, !.correct = 0]]
    /\ UNCHANGED <<levels, workers, overlaps>>

\* the reply of handle_message lines 342-363
StartReply(level_data) ==
    IF level_data # NoRow
    THEN <<TextSendMessage(MSG_START_BANNER),
           TextSendMessage(<<level_data[2]>>),
           TextSendMessage(ChallengeText(L01, level_data[3]))>>
         \o OptionalImage(level_data[4])
    ELSE <<TextSendMessage(MSG_START_NO_L01)>>

\* handle_message lines 341-363
StartLookup(w) ==
    /\ handler[w].pc = "start_lookup"
    /\ handler' = [handler EXCEPT ![w] = Reply(@, StartReply(get_level_details(L01)))]
    /\ UNCHANGED <<users, levels, workers, journey, overlaps>>

\* handle_message line 380
BaseLevelId(current_state) == split_first(current_state)

\* mutant: only the input is normalized, the stored answer is compared raw
IsCorrect_InputOnly(user_input, correct_answer_raw) ==
    clean_answer(user_input) = correct_answer_raw

\* handle_message line 461
IsCorrect(user_input, correct_answer_raw) ==
    clean_answer(user_input) = clean_answer(correct_answer_raw)

\* mutant: the arrival skips a level
NextLevelAfterArrival_SkipsOne(base_level_id) ==
    IF IsNumber(Rest(base_level_id))
    THEN NumericSuccessor(NumericSuccessor(base_level_id))
    ELSE COMPLETED

\* handle_message lines 403-408: int() raising ValueError gives 'COMPLETED'
NextLevelAfterArrival(base_level_id) ==
    IF IsNumber(Rest(base_level_id))
    THEN NumericSuccessor(base_level_id)
    ELSE COMPLETED

\* mutant: the notice alone, without the intro and the question
WrongAnswerReply_NoticeOnly(base_level_id, level_data) ==
    <<TextSendMessage(MSG_WRONG_ANSWER)>>

\* the reply of handle_message lines 503-516
WrongAnswerReply(base_level_id, level_data) ==
    <<TextSendMessage(MSG_WRONG_ANSWER),
      TextSendMessage(<<level_data[2]>>),
      TextSendMessage(CurrentChallengeText(base_level_id, level_data[3]))>>
    \o OptionalImage(level_data[4])

\* mutant: the missing record falls through to the unknown-state reply
CatalogMiss_AsStateError(r) == Reply(r, <<TextSendMessage(MSG_STATE_ERROR)>>)

\* handle_message lines 385-390: no row for the current level
CatalogMiss(r) == Reply(r, <<TextSendMessage(MSG_NO_LEVEL_DATA)>>)

\* handle_message lines 397-408 and 449-455: a WAITING state
OnWaiting(r) ==
    IF IsArrivalCommand(r.user_input)
    THEN [r EXCEPT !.pc = "next_lookup",
                   !.next_level_id =
                       NextLevelAfterArrival(BaseLevelId(r.current_state))]
    ELSE Reply(r, <<TextSendMessage(MSG_SEND_ARRIVAL)>>)

\* handle_message lines 458-480 and 501-521: an ANSWERING state; int() of
\* line 478 raises before anything is written
OnAnswering(r) ==
    LET base_level_id == BaseLevelId(r.current_state)
    IN IF IsCorrect(r.user_input, r.current_level_data[5])
       THEN IF base_level_id = L06 \/ IsNumber(Rest(base_level_id))
            THEN [r EXCEPT !.pc = "answer_update"]
            ELSE Abort(r)
       ELSE Reply(r, WrongAnswerReply(base_level_id, r.current_level_data))

\* what follows get_level_details(base_level_id), up to the next store
\* access: handle_message lines 385-528
AfterCurrentLookup(r, level_data) ==
    LET r1 == [r EXCEPT !.current_level_data = level_data]
    IN IF level_data = NoRow
       THEN CatalogMiss(r1)
       ELSE IF endswith(r.current_state, WAITING)
       THEN OnWaiting(r1)
       ELSE IF endswith(r.current_state, ANSWERING)
       THEN OnAnswering(r1)
       ELSE Reply(r1, <<TextSendMessage(MSG_STATE_ERROR)>>)

\* handle_message line 383
CurrentLookup(w) ==
    /\ handler[w].pc = "current_lookup"
    /\ handler' = [handler EXCEPT ![w] =
          AfterCurrentLookup(@, get_level_details(BaseLevelId(@.current_state)))]
    /\ UNCHANGED <<users, levels, workers, journey, overlaps>>

\* handle_message line 411
NextLookup(w) ==
    /\ handler[w].pc = "next_lookup"
    /\ handler' = [handler EXCEPT ![w] =
          [handler[w] EXCEPT
              !.pc = "arrival_update",
              !.next_level_data = get_level_details(handler[w].next_level_id)]]
    /\ UNCHANGED <<users, levels, workers, journey, overlaps>>

\* mutant: the arrival leaves the player waiting, at the successor
StateAfterArrival_StillWaiting(next_level_id, next_level_data) ==
    IF next_level_data # NoRow THEN Waiting(next_level_id) ELSE COMPLETED

\* the state written on an arrival confirmation (lines 418, 443)
StateAfterArrival(next_level_id, next_level_data) ==
    IF next_level_data # NoRow THEN Answering(next_level_id) ELSE COMPLETED

\* the reply to an arrival confirmation (lines 421-444)
ArrivalReply(next_level_id, next_level_data) ==
    IF next_level_data # NoRow
    THEN <<TextSendMessage(MSG_ARRIVAL_CONFIRMED)>>
         \o (IF Truthy(next_level_data[2])
             THEN <<TextSendMessage(<<next_level_data[2]>>)>> ELSE <<>>)
         \o <<TextSendMessage(ChallengeText(next_level_id, next_level_data[3]))>>
         \o OptionalImage(next_level_data[4])
    ELSE <<TextSendMessage(<<LEVEL_DATA[L06].next_clue>>)>>

\* handle_message lines 414-447
ArrivalUpdate(w) ==
    /\ handler[w].pc = "arrival_update"
    /\ users' = update_user_level(handler[w].user_id,
          StateAfterArrival(handler[w].next_level_id, handler[w].next_level_data))
    /\ handler' = [handler EXCEPT ![w] =
          Reply(@, ArrivalReply(@.next_level_id, @.next_level_data))]
    /\ UNCHANGED <<levels, workers, journey, overlaps>>

\* mutant: the hard-coded terminal level is L05
StateAfterCorrect_TerminalL05(base_level_id) ==
    IF base_level_id = L05 THEN COMPLETED ELSE Waiting(base_level_id)

\* the state written on a correct answer (lines 470-483)
StateAfterCorrect(base_level_id) ==
    IF base_level_id = L06 THEN COMPLETED ELSE Waiting(base_level_id)

\* mutant: the travel prompt comes before the transition image
CorrectReply_PromptBeforeImage(base_level_id, level_data) ==
    IF base_level_id = L06
    THEN <<TextSendMessage(<<level_data[6]>>)>>
    ELSE <<TextSendMessage(<<level_data[6]>>), TextSendMessage(MSG_TRAVEL_PROMPT)>>
         \o OptionalImage(level_data[7])

\* the reply to a correct answer (lines 472, 486-497)
CorrectReply(base_level_id, level_data) ==
    IF base_level_id = L06
    THEN <<TextSendMessage(<<level_data[6]>>)>>
    ELSE <<TextSendMessage(<<level_data[6]>>)>>
         \o OptionalImage(level_data[7])
         \o <<TextSendMessage(MSG_TRAVEL_PROMPT)>>

\* handle_message lines 463-499
AnswerUpdate(w) ==
    /\ handler[w].pc = "answer_update"
    /\ users' = update_user_level(handler[w].user_id,
          StateAfterCorrect(BaseLevelId(handler[w].current_state)))
    /\ handler' = [handler EXCEPT ![w] =
          Reply(@, CorrectReply(BaseLevelId(@.current_state), @.current_level_data))]
    /\ journey' = [journey EXCEPT ![handler[w].user_id].correct =
                      IF journey[handler[w].user_id].started THEN @ + 1 ELSE @]
    /\ UNCHANGED <<levels, workers, overlaps>>

\* callback returns 'OK' or abort(500) (lines 270-279): the worker is free
Return(w) ==
    /\ handler[w].pc = "done"
    /\ handler' = [handler EXCEPT ![w] = Idle]
    /\ UNCHANGED <<users, levels, workers, journey, overlaps>>

\* the program points at which the store is accessed
StorePcs ==
    {"reset_update", "select_user", "insert_user", "start_update",
     "start_lookup", "current_lookup", "next_lookup", "arrival_update",
     "answer_update"}

\* where a store exception ends: the except of the reset (lines 317-319),
\* the except of the start (lines 365-367), otherwise callback (lines 275-277)
AfterStoreError(r) ==
    LET r1 == [r EXCEPT !.raised = TRUE]
    IN IF r.pc = "reset_update"
       THEN Reply(r1, <<TextSendMessage(MSG_RESET_FAILED)>>)
       ELSE IF r.pc \in {"start_update", "start_lookup"}
       THEN Reply(r1, <<TextSendMessage(MSG_START_FAILED)>>)
       ELSE Abort(r1)

\* get_db_connection or a statement raises: the access changes nothing
StoreRaises(w) ==
    /\ handler[w].pc \in StorePcs
    /\ handler' = [handler EXCEPT ![w] = AfterStoreError(@)]
    /\ UNCHANGED <<users, levels, workers, journey, overlaps>>

----------------------------------------------------------------------------
(* Specifications *)

\* the steps of worker w, with the senders and the texts of its requests
Step(w, senders, texts) ==
    \/ \E user_id \in senders, user_input \in texts :
          ReceiveMessage(w, user_id, user_input)
    \/ \E user_id \in senders : ReceiveFollow(w, user_id)
    \/ ResetUpdate(w)
    \/ SelectUser(w)
    \/ InsertUser(w)
    \/ StartUpdate(w)
    \/ StartLookup(w)
    \/ CurrentLookup(w)
    \/ NextLookup(w)
    \/ ArrivalUpdate(w)
    \/ AnswerUpdate(w)
    \/ Return(w)

Next == \E w \in Workers : Step(w, Users, Inputs)

\* the requests of one user, handled by several workers at once
NextConcurrent == \E w \in Workers : Step(w, ConcurrentUsers, ConcurrentInputs)

NextStoreFault == Next \/ \E w \in Workers : StoreRaises(w)

\* one request at a time, a reliable store, an empty users table
Spec == Init /\ [][Next]_vars

\* one request at a time, a reliable store, a users table with rows
NextLegacy == \E w \in Workers : Step(w, LegacyUsers, Inputs)

SpecLegacy == InitLegacy /\ [][NextLegacy]_vars

\* several requests at once, a reliable store, an empty users table
SpecConcurrent == InitConcurrent /\ [][NextConcurrent]_vars

\* one request at a time, a reliable store, texts in every spelling
NextNormalize == \E w \in Workers : Step(w, NormalizeUsers, NormalizeInputs)

SpecNormalize == Init /\ [][NextNormalize]_vars

\* the users with no request in progress
FreeUsers == {u \in Users : \A w \in Workers : handler[w].user_id # u}

\* requests of different users handled at once, store accesses may raise
NextCrossUser ==
    \/ \E w \in Workers : Step(w, FreeUsers, CrossUserInputs)
    \/ \E w \in Workers : StoreRaises(w)

SpecCrossUser == InitConcurrent /\ [][NextCrossUser]_vars

\* one request at a time, store accesses may raise
SpecStoreFault == Init /\ [][NextStoreFault]_vars

----------------------------------------------------------------------------
(* Properties.  A handler that has returned (pc = "done") still holds the    *)
(* request, what it read, its reply, and in "before" the stored state of its *)
(* user when the request arrived; with one request at a time the stored      *)
(* state of that user is then the state after the request.                   *)

\* worker w has finished a text message
HandledMessage(w) == handler[w].pc = "done" /\ handler[w].event = "message"

\* the trimmed upper-cased text is a reset token
SentReset(w) == upper(strip(handler[w].user_input)) \in {RESET, RESET_ZH}

\* the trimmed upper-cased text is a start token
SentStart(w) == upper(strip(handler[w].user_input)) \in {START, START_ZH}

\* the normalized text is an arrival-confirmation token
SentArrival(w) == clean_answer(handler[w].user_input) \in {ARRIVED, ARRIVED_SHORT}

\* the state stored for the user of worker w
StoredNow(w) == Stored(handler[w].user_id)

\* the reply of worker w is this one text message
RepliedText(w, text) == handler[w].reply = <<TextSendMessage(text)>>

\* C1: for every stored state of a user, recognized or not, a message whose
\* trimmed upper-cased text is RESET or its localized form leaves the stored
\* state WELCOME, is answered with the reset confirmation and the welcome
\* text, and reads neither the user's state nor any level record.
C1_ResetUniversal ==
    \A w \in Workers :
        (HandledMessage(w) /\ SentReset(w) /\ handler[w].before # <<>>)
        => /\ StoredNow(w) = <<WELCOME>>
           /\ handler[w].reply = <<TextSendMessage(MSG_RESET_DONE),
                                   TextSendMessage(WELCOME_MESSAGE)>>
           /\ handler[w].current_state = <<>>
           /\ handler[w].current_level_data = NoRow
           /\ handler[w].next_level_data = NoRow

\* a localized reset was handled for a user whose stored state was the bare
\* level id of the older design
C1_Witness ==
    \E w \in Workers :
        /\ HandledMessage(w)
        /\ handler[w].user_input = RESET_ZH
        /\ handler[w].before = <<L01>>
        /\ StoredNow(w) = <<WELCOME>>

\* C2: for an N-level catalog, a user who started from WELCOME with START is
\* in COMPLETED exactly when N correct answers have been accepted since.
C2_ChainEndsAtNthAnswer ==
    \A u \in DOMAIN users :
        (journey[u].started /\ Cardinality(DOMAIN levels) >= 1)
        => (users[u] = COMPLETED
              <=> journey[u].correct = Cardinality(DOMAIN levels))

\* C3: a correct answer on the level that has no successor in the loaded
\* catalog moves the stored state to COMPLETED and is answered with that
\* level's transition text only.
C3_TerminalCorrect ==
    \A w \in Workers : \A L \in DOMAIN levels :
        (/\ HandledMessage(w) /\ ~SentReset(w)
         /\ handler[w].before = <<Answering(L)>>
         /\ NumericSuccessor(L) \notin DOMAIN levels
         /\ clean_answer(handler[w].user_input) = clean_answer(levels[L][5]))
        => /\ StoredNow(w) = <<COMPLETED>>
           /\ RepliedText(w, <<levels[L][6]>>)

\* the level LEVEL_DATA designates as terminal
DesignatedTerminal(L) ==
    L \in DOMAIN LEVEL_DATA /\ LEVEL_DATA[L].next_level_id = COMPLETED

\* the request of worker w needed a level record the catalog does not hold
NeededAbsentLevel(w) ==
    \/ /\ handler[w].before = <<WELCOME>>
       /\ SentStart(w)
       /\ L01 \notin DOMAIN levels
    \/ \E L \in DOMAIN levels :
          /\ handler[w].before = <<Waiting(L)>>
          /\ SentArrival(w)
          /\ NumericSuccessor(L) \notin DOMAIN levels
          /\ ~DesignatedTerminal(L)

\* C4: a message that needs a level record absent from the catalog (the
\* first level on START, the successor on an arrival confirmation when the
\* current level is not the designated terminal) leaves the stored state as
\* it was and is answered with a system-error message.
C4_NotFoundNoMutation ==
    \A w \in Workers :
        (HandledMessage(w) /\ ~SentReset(w) /\ NeededAbsentLevel(w))
        => /\ StoredNow(w) = handler[w].before
           /\ \/ RepliedText(w, MSG_START_NO_L01)
              \/ RepliedText(w, MSG_NO_LEVEL_DATA)

\* the stored state is <L>_ANSWERING or <L>_WAITING and L has no record
CurrentLevelMissing(state) ==
    /\ endswith(state, ANSWERING) \/ endswith(state, WAITING)
    /\ split_first(state) \notin DOMAIN levels

\* C5: when the stored state is <L>_ANSWERING or <L>_WAITING and the catalog
\* has no record of L, a message that is not a reset leaves the stored state
\* unchanged and is answered with the system-error message.
C5_CatalogMiss ==
    \A w \in Workers :
        (/\ HandledMessage(w) /\ ~SentReset(w)
         /\ handler[w].before # <<>>
         /\ CurrentLevelMissing(handler[w].before[1]))
        => /\ StoredNow(w) = handler[w].before
           /\ RepliedText(w, MSG_NO_LEVEL_DATA)

\* an arrival confirmation was handled in L03_WAITING with no record of L03
C5_Witness ==
    \E w \in Workers :
        /\ HandledMessage(w)
        /\ handler[w].user_input = ARRIVED_SHORT
        /\ handler[w].before = <<Waiting(L03)>>
        /\ L03 \notin DOMAIN levels
        /\ RepliedText(w, MSG_NO_LEVEL_DATA)
        /\ StoredNow(w) = <<Waiting(L03)>>

\* C6: when a store access of a request raises, the stored state of its
\* user after the request is the stored state before it.
C6_StoreFailureAtomic ==
    \A w \in Workers :
        (handler[w].pc = "done" /\ handler[w].raised /\ handler[w].before # <<>>)
        => StoredNow(w) = handler[w].before

\* the place of a state token in the chain
\* WELCOME < L01_ANSWERING < L01_WAITING < L02_ANSWERING < ... < COMPLETED
Rank(state) ==
    IF state = WELCOME THEN 0
    ELSE IF state = COMPLETED THEN 200
    ELSE 2 * int(Rest(split_first(state)))
         - (IF endswith(state, ANSWERING) THEN 1 ELSE 0)

\* this step moves the stored state of user u backward in the chain
MovesBackward(u) == Rank(users'[u]) < Rank(users[u])

\* this step is the write of a handler of user u whose read of the state is
\* no longer the stored state
StaleWrite(u) ==
    \E w \in Workers :
        /\ handler[w].user_id = u
        /\ handler[w].pc \in {"start_update", "arrival_update", "answer_update"}
        /\ handler'[w].pc # handler[w].pc
        /\ handler[w].current_state # users[u]

\* C7 as stated: with requests of one user handled at once, as long as no
\* reset was carried out the stored state never moves backward in the chain.
C7_NoStaleRevert ==
    [][\A u \in DOMAIN users : ~journey'[u].was_reset => ~MovesBackward(u)]_vars

\* C7 as amended: as long as no reset was carried out, the stored state moves
\* backward only by the write of a handler whose read is stale; a handler
\* whose read is still the stored state never moves it backward.
C7_RevertOnlyByStaleWrite ==
    [][\A u \in DOMAIN users :
          (~journey'[u].was_reset /\ MovesBackward(u)) => StaleWrite(u)]_vars

\* a handler is about to write from a read that two later transitions of the
\* same user have overtaken
C7_Witness ==
    \E w \in Workers :
        /\ handler[w].pc = "answer_update"
        /\ handler[w].user_id \in DOMAIN users
        /\ ~journey[handler[w].user_id].was_reset
        /\ Rank(users[handler[w].user_id]) > Rank(handler[w].current_state) + 1

\* C8: in <L>_ANSWERING, for a level L of the catalog, a text that is not a
\* reset and whose normalized form differs from L's normalized answer leaves
\* the stored state <L>_ANSWERING and is answered with the wrong-answer
\* notice first and, after it, a message carrying L's question text.
C8_WrongAnswerNoOp ==
    \A w \in Workers : \A L \in DOMAIN levels :
        (/\ HandledMessage(w) /\ ~SentReset(w)
         /\ handler[w].before = <<Answering(L)>>
         /\ clean_answer(handler[w].user_input) # clean_answer(levels[L][5]))
        => /\ StoredNow(w) = <<Answering(L)>>
           /\ Len(handler[w].reply) >= 2
           /\ handler[w].reply[1] = TextSendMessage(MSG_WRONG_ANSWER)
           /\ \E i \in 2..Len(handler[w].reply) :
                 /\ handler[w].reply[i].type = "text"
                 /\ \E k \in 1..Len(handler[w].reply[i].text) :
                       handler[w].reply[i].text[k] = levels[L][3]

\* the answer of L02 was handled as a wrong answer in L04_ANSWERING
C8_Witness ==
    \E w \in Workers :
        /\ HandledMessage(w)
        /\ handler[w].user_input = LEVEL_DATA[L02].answer
        /\ handler[w].before = <<Answering(L04)>>
        /\ L04 \in DOMAIN levels
        /\ StoredNow(w) = <<Answering(L04)>>
        /\ handler[w].reply[1] = TextSendMessage(MSG_WRONG_ANSWER)

\* C9: in WELCOME, a text that is neither a start token nor a reset token
\* leaves the stored state WELCOME and is answered with the instruction to
\* send the start token.
C9_UnknownCommandInWelcome ==
    \A w \in Workers :
        (/\ HandledMessage(w) /\ ~SentReset(w) /\ ~SentStart(w)
         /\ handler[w].before = <<WELCOME>>)
        => /\ StoredNow(w) = <<WELCOME>>
           /\ RepliedText(w, MSG_SEND_START)

\* the answer of L01 was handled in WELCOME
C9_Witness ==
    \E w \in Workers :
        /\ HandledMessage(w)
        /\ handler[w].user_input = LEVEL_DATA[L01].answer
        /\ handler[w].before = <<WELCOME>>
        /\ StoredNow(w) = <<WELCOME>>
        /\ RepliedText(w, MSG_SEND_START)

\* C10: once the stored state is COMPLETED, every event other than a reset
\* leaves it COMPLETED, and every text message other than a reset (START,
\* arrival tokens and correct answers included) is answered with the
\* completion notice.
C10_CompletedAbsorbing ==
    \A w \in Workers :
        (/\ handler[w].pc = "done"
         /\ handler[w].before = <<COMPLETED>>
         /\ ~(handler[w].event = "message" /\ SentReset(w)))
        => /\ StoredNow(w) = <<COMPLETED>>
           /\ handler[w].event = "message" => RepliedText(w, MSG_COMPLETED)

\* START was handled for a user who had completed the chain
C10_Witness ==
    \E w \in Workers :
        /\ HandledMessage(w)
        /\ handler[w].user_input = START
        /\ handler[w].before = <<COMPLETED>>
        /\ StoredNow(w) = <<COMPLETED>>
        /\ RepliedText(w, MSG_COMPLETED)

\* message m is a text message whose text carries the text of a column
CarriesText(m, column) ==
    /\ m.type = "text"
    /\ \E k \in 1..Len(m.text) : m.text[k] = column

\* the transition text of the level LEVEL_DATA designates as terminal
TerminalTransitionText ==
    LEVEL_DATA[CHOOSE L \in DOMAIN LEVEL_DATA : DesignatedTerminal(L)].next_clue

\* reply is, in order: the arrival acknowledgement, the intro text of the row
\* if it has one, its question text, its question image if it has one
IsArrivalReplyFor(reply, row) ==
    LET intro == IF Truthy(row[2]) THEN 1 ELSE 0
        image == IF Truthy(row[4]) THEN 1 ELSE 0
    IN /\ Len(reply) = 2 + intro + image
       /\ reply[1] = TextSendMessage(MSG_ARRIVAL_CONFIRMED)
       /\ intro = 1 => reply[2] = TextSendMessage(<<row[2]>>)
       /\ CarriesText(reply[2 + intro], row[3])
       /\ image = 1 => reply[3 + intro] = ImageSendMessage(row[4])

\* C11: in <L>_WAITING, for a level L of the catalog, an arrival-confirmation
\* token moves the stored state to <L'>_ANSWERING when the successor L' of L
\* is in the catalog, answered with the acknowledgement, L' intro text if
\* present, L' question text and L' question image if present, in this order;
\* when L has no successor in the catalog the stored state becomes COMPLETED
\* and the answer is the terminal transition text.
C11_ArrivalConfirmation ==
    \A w \in Workers : \A L \in DOMAIN levels :
        (/\ HandledMessage(w) /\ SentArrival(w)
         /\ handler[w].before = <<Waiting(L)>>)
        => IF NumericSuccessor(L) \in DOMAIN levels
           THEN /\ StoredNow(w) = <<Answering(NumericSuccessor(L))>>
                /\ IsArrivalReplyFor(handler[w].reply, levels[NumericSuccessor(L)])
           ELSE /\ StoredNow(w) = <<COMPLETED>>
                /\ RepliedText(w, <<TerminalTransitionText>>)

\* the long arrival token was handled in L03_WAITING and the reply ends with
\* the question image of L04
C11_Witness ==
    \E w \in Workers :
        /\ HandledMessage(w)
        /\ handler[w].user_input = ARRIVED
        /\ handler[w].before = <<Waiting(L03)>>
        /\ StoredNow(w) = <<Answering(L04)>>
        /\ Len(handler[w].reply) = 4
        /\ handler[w].reply[4].type = "image"

\* level L is not terminal: the configuration does not designate it as
\* terminal and its successor is in the catalog
NonTerminal(L) ==
    ~DesignatedTerminal(L) /\ NumericSuccessor(L) \in DOMAIN levels

\* C12: in <L>_ANSWERING, for a level L of the catalog that is not terminal,
\* a correct answer moves the stored state to <L>_WAITING, with the id of L
\* and not of its successor, and is answered with L's transition text, then
\* L's transition image if and only if L has one, then the travel prompt.
C12_CorrectNonTerminal ==
    \A w \in Workers : \A L \in DOMAIN levels :
        (/\ HandledMessage(w) /\ ~SentReset(w)
         /\ handler[w].before = <<Answering(L)>>
         /\ NonTerminal(L)
         /\ clean_answer(handler[w].user_input) = clean_answer(levels[L][5]))
        => /\ StoredNow(w) = <<Waiting(L)>>
           /\ handler[w].reply =
                 IF Truthy(levels[L][7])
                 THEN <<TextSendMessage(<<levels[L][6]>>),
                        ImageSendMessage(levels[L][7]),
                        TextSendMessage(MSG_TRAVEL_PROMPT)>>
                 ELSE <<TextSendMessage(<<levels[L][6]>>),
                        TextSendMessage(MSG_TRAVEL_PROMPT)>>

\* the answer of L01 was accepted in L01_ANSWERING for a level record with a
\* transition image, and the reply carries the image between the two texts
C12_Witness ==
    \E w \in Workers :
        /\ HandledMessage(w)
        /\ handler[w].user_input = LEVEL_DATA[L01].answer
        /\ handler[w].before = <<Answering(L01)>>
        /\ StoredNow(w) = <<Waiting(L01)>>
        /\ Len(handler[w].reply) = 3
        /\ handler[w].reply[2].type = "image"

\* the token has one of the forms WELCOME, COMPLETED, <L>_ANSWERING, <L>_WAITING
Recognized(state) ==
    \/ state = WELCOME
    \/ state = COMPLETED
    \/ endswith(state, ANSWERING)
    \/ endswith(state, WAITING)

\* C13: for every stored token that is none of WELCOME, COMPLETED,
\* <L>_ANSWERING and <L>_WAITING, a message that is not a reset leaves the
\* stored token unchanged and is answered with the state-error notice that
\* suggests a reset.
C13_UnrecognizedState ==
    \A w \in Workers :
        (/\ HandledMessage(w) /\ ~SentReset(w)
         /\ handler[w].before # <<>>
         /\ ~Recognized(handler[w].before[1]))
        => /\ StoredNow(w) = handler[w].before
           /\ RepliedText(w, MSG_STATE_ERROR)

\* C14: the normalization is idempotent: for every text a player sends,
\* texts that mix removed punctuation with tabs or newlines included,
\* normalizing the normalized text gives the normalized text.
C14_CleanAnswerIdempotent ==
    \A w \in Workers :
        handler[w].event = "message"
        => clean_answer(clean_answer(handler[w].user_input))
              = clean_answer(handler[w].user_input)

\* the characters that never count in a comparison: the listed punctuation
\* marks, the ASCII space and the full-width space
Ignorable == {Punctuation[i] : i \in 1..Len(Punctuation)} \cup {" ", "U3000"}

\* a text without its ignorable characters and without letter case
Essence(s) == lower(SelectSeq(s, LAMBDA c : c \notin Ignorable))

\* the text differs from the answer only in letter case, white space at its
\* start and end, ignorable punctuation and spaces
IsVariant(text, answer) ==
    \E i \in 1..Len(text) + 1 : \E j \in (i - 1)..Len(text) :
        /\ \A k \in 1..(i - 1) : text[k] \in Whitespace
        /\ \A k \in (j + 1)..Len(text) : text[k] \in Whitespace
        /\ Essence(SubSeq(text, i, j)) = Essence(answer)

\* the request of worker w in <L>_ANSWERING was treated as a correct answer
Accepted(w, L) ==
    /\ StoredNow(w) \in {<<Waiting(L)>>, <<COMPLETED>>}
    /\ handler[w].reply # <<>>
    /\ handler[w].reply[1] = TextSendMessage(<<levels[L][6]>>)

\* C15: in <L>_ANSWERING, for a level L of the catalog, a text that is not a
\* reset is treated as correct exactly when its normalized form equals the
\* normalized form of L's stored answer; so a text that differs from the
\* answer only in letter case, leading or trailing white space, the listed
\* punctuation marks and ASCII or full-width spaces is always accepted.
C15_SymmetricComparison ==
    \A w \in Workers : \A L \in DOMAIN levels :
        (/\ HandledMessage(w) /\ ~SentReset(w)
         /\ handler[w].before = <<Answering(L)>>)
        => /\ Accepted(w, L)
                 <=> clean_answer(handler[w].user_input) = clean_answer(levels[L][5])
           /\ IsVariant(handler[w].user_input, levels[L][5]) => Accepted(w, L)

\* the answer of L01 in capitals, with a space inside, an exclamation mark,
\* a tab before and a newline after, was accepted in L01_ANSWERING
C15_Witness ==
    \E w \in Workers :
        /\ HandledMessage(w)
        /\ handler[w].user_input =
              <<"\t","M","A","R","U"," ","Y","A","M","A","!","\n">>
        /\ handler[w].before = <<Answering(L01)>>
        /\ L01 \in DOMAIN levels
        /\ IsVariant(handler[w].user_input, levels[L01][5])
        /\ StoredNow(w) = <<Waiting(L01)>>

\* C16: once an event of a user has been handled, whatever the event (a
\* follow, or a text, the reset tokens included), the store holds a record
\* of that user; and no step removes a record from the store.
C16_RecordLifecycle ==
    /\ [](\A w \in Workers :
             handler[w].pc = "done" => handler[w].user_id \in DOMAIN users)
    /\ [][DOMAIN users \subseteq DOMAIN users']_vars

\* the state tokens of the catalog the levels table holds
CatalogStates ==
    {WELCOME, COMPLETED}
    \cup {Answering(L) : L \in DOMAIN levels}
    \cup {Waiting(L) : L \in DOMAIN levels}

\* C17: starting from an empty users table, after any sequence of follow and
\* message events the stored state of every user is WELCOME, COMPLETED,
\* <L>_ANSWERING or <L>_WAITING for a level L that is in the levels table.
C17_StateTypeInvariant == \A u \in DOMAIN users : users[u] \in CatalogStates

\* C18: a follow event of a user without a record creates the record with
\* state WELCOME; a follow event of a user with a record leaves the stored
\* state as it was, whatever it was; both are answered with the welcome text
\* and nothing else.
C18_FollowEvent ==
    \A w \in Workers :
        (handler[w].pc = "done" /\ handler[w].event = "follow")
        => /\ StoredNow(w) = IF handler[w].before = <<>>
                             THEN <<WELCOME>>
                             ELSE handler[w].before
           /\ RepliedText(w, WELCOME_MESSAGE)

\* a follow event was handled for a user in the middle of the game
C18_Witness ==
    \E w \in Workers :
        /\ handler[w].pc = "done"
        /\ handler[w].event = "follow"
        /\ handler[w].before = <<Waiting(L02)>>
        /\ StoredNow(w) = <<Waiting(L02)>>
        /\ RepliedText(w, WELCOME_MESSAGE)

\* the stored state of a user after one event handled with no other request
\* in progress and a reliable store, from the stored state before it
AloneOutcome(before, event, user_input) ==
    IF event = "message" /\ IsResetCommand(user_input)
    THEN IF before = <<>> THEN <<>> ELSE <<WELCOME>>
    ELSE LET current_state == IF before = <<>> THEN WELCOME ELSE before[1]
             base_level_id == BaseLevelId(current_state)
             level_data == get_level_details(base_level_id)
             next_level_id == NextLevelAfterArrival(base_level_id)
         IN IF event = "follow" \/ current_state = COMPLETED
            THEN <<current_state>>
            ELSE IF current_state = WELCOME
            THEN IF IsStartCommand(user_input)
                 THEN <<Answering(L01)>> ELSE <<current_state>>
            ELSE IF level_data = NoRow
            THEN <<current_state>>
            ELSE IF endswith(current_state, WAITING)
            THEN IF IsArrivalCommand(user_input)
                 THEN <<StateAfterArrival(next_level_id,
                                          get_level_details(next_level_id))>>
                 ELSE <<current_state>>
            ELSE IF /\ endswith(current_state, ANSWERING)
                    /\ IsCorrect(user_input, level_data[5])
                    /\ base_level_id = L06 \/ IsNumber(Rest(base_level_id))
            THEN <<StateAfterCorrect(base_level_id)>>
            ELSE <<current_state>>

\* this step changes the record of user u, or creates it
RecordChanges(u) ==
    \/ (u \in DOMAIN users) # (u \in DOMAIN users')
    \/ u \in DOMAIN users /\ u \in DOMAIN users' /\ users'[u] # users[u]

\* this step is a store access of a request of user u
StoreAccessOf(u) ==
    \E w \in Workers :
        /\ handler[w].user_id = u
        /\ handler[w].pc \in StorePcs
        /\ handler'[w].pc # handler[w].pc

\* C19: with requests of different users handled at once, some of them
\* failing, a request whose store accesses succeed leaves its user's stored
\* state as the same event handled alone would, and every change of a record
\* is made by a store access of a request of that record's user.
C19_CrossUserIndependence ==
    /\ [](\A w \in Workers :
             (handler[w].pc = "done" /\ ~handler[w].raised)
             => StoredNow(w) = AloneOutcome(handler[w].before, handler[w].event,
                                            handler[w].user_input))
    /\ [][\A u \in Users : RecordChanges(u) => StoreAccessOf(u)]_vars

\* a request of one user has failed and a request of another user, handled at
\* the same time, has changed that user's stored state
C19_Witness ==
    \E w1 \in Workers : \E w2 \in Workers :
        /\ handler[w1].pc = "done" /\ handler[w1].raised
        /\ handler[w2].pc = "done" /\ ~handler[w2].raised
        /\ handler[w1].user_id # handler[w2].user_id
        /\ handler[w2].before # <<>>
        /\ StoredNow(w2) # handler[w2].before
        /\ StoredNow(w1) = handler[w1].before

\* setup_db has loaded every level of LEVEL_DATA into the levels table
CatalogLoaded == DOMAIN LEVEL_DATA \subseteq DOMAIN levels

\* C20: with the level catalog loaded, the engine leaves every level L of
\* LEVEL_DATA for the level L's next_level_id names: a correct answer in
\* <L>_ANSWERING gives COMPLETED when next_level_id is COMPLETED and otherwise
\* <L>_WAITING, and the arrival confirmation that follows gives
\* <next_level_id>_ANSWERING.
C20_SuccessorAgreesWithCatalog ==
    \A w \in Workers : \A L \in DOMAIN LEVEL_DATA :
        (HandledMessage(w) /\ ~SentReset(w) /\ CatalogLoaded)
        => /\ (/\ handler[w].before = <<Answering(L)>>
               /\ clean_answer(handler[w].user_input)
                     = clean_answer(LEVEL_DATA[L].answer))
              => StoredNow(w) = IF LEVEL_DATA[L].next_level_id = COMPLETED
                                THEN <<COMPLETED>>
                                ELSE <<Waiting(L)>>
           /\ (handler[w].before = <<Waiting(L)>> /\ SentArrival(w))
              => StoredNow(w) = <<Answering(LEVEL_DATA[L].next_level_id)>>

\* an arrival confirmation was handled in L05_WAITING, and the stored state
\* is the ANSWERING state of the level next_level_id names
C20_Witness ==
    \E w \in Workers :
        /\ HandledMessage(w)
        /\ SentArrival(w)
        /\ CatalogLoaded
        /\ handler[w].before = <<Waiting(L05)>>
        /\ StoredNow(w) = <<Answering(LEVEL_DATA[L05].next_level_id)>>

\* C21: with two events of a user without a record handled at once (a follow
\* and a text, or two texts), every handler that found no record on arrival
\* returns normally with a reply, and the store then holds the record of the
\* user; user_id being the key of the table, it holds it once.
C21_ConcurrentFirstContact ==
    \A w \in Workers :
        (/\ handler[w].pc = "done"
         /\ handler[w].before = <<>>
         /\ ~(handler[w].event = "message" /\ SentReset(w)))
        => /\ handler[w].http = "OK"
           /\ handler[w].reply # <<>>
           /\ handler[w].user_id \in DOMAIN users

\* the chain of the six levels of LEVEL_DATA: two states a level, except the
\* terminal level, whose correct answer ends the game
Chain ==
    <<WELCOME,
      Answering(L01), Waiting(L01), Answering(L02), Waiting(L02),
      Answering(L03), Waiting(L03), Answering(L04), Waiting(L04),
      Answering(L05), Waiting(L05), Answering(L06),
      COMPLETED>>

\* the place in the chain of the stored state of a user, as Stored gives it;
\* a user without a record is where the record starts, at WELCOME
Position(stored) == IF stored = <<>> THEN 1 ELSE IndexOf(Chain, stored[1])

\* C22: with one request at a time, an empty users table at the start and
\* the level catalog loaded, every stored state is a state of the chain
\* WELCOME, L01_ANSWERING, L01_WAITING, ..., L06_ANSWERING, COMPLETED, so
\* L06_WAITING is never stored, and an event other than a reset leaves the
\* stored state of its user where it was or one place further in the chain.
C22_OneStepProgress ==
    CatalogLoaded
    => /\ \A u \in DOMAIN users : Position(<<users[u]>>) # 0
       /\ \A w \in Workers :
             (/\ handler[w].pc = "done"
              /\ ~(handler[w].event = "message" /\ SentReset(w)))
             => \/ Position(StoredNow(w)) = Position(handler[w].before)
                \/ Position(StoredNow(w)) = Position(handler[w].before) + 1

\* the answer of L06 was handled in L06_ANSWERING and the stored state is
\* COMPLETED, the next place in the chain
C22_Witness ==
    \E w \in Workers :
        /\ HandledMessage(w)
        /\ CatalogLoaded
        /\ handler[w].user_input = LEVEL_DATA[L06].answer
        /\ handler[w].before = <<Answering(L06)>>
        /\ StoredNow(w) = <<COMPLETED>>
        /\ Position(StoredNow(w)) = Position(handler[w].before) + 1

====
